---- MODULE Spec2Model ----
(***************************************************************************)
(* Model of `gt cleanup` (internal/cmd/cleanup.go): runCleanup and its     *)
(* three passes cleanupDonePolecats, cleanupCompletedConvoys and           *)
(* cleanupStaleBranches.  Every call to an external collaborator (polecat  *)
(* manager, session manager, bd, git) is one step whose outcome is chosen  *)
(* nondeterministically; the variable `call` records the call a step made. *)
(***************************************************************************)
EXTENDS Integers, Sequences, FiniteSets, TLC

\* Bounds of the model.
MaxRigs == 2
MaxUnits == 2
MaxConvoys == 2
MaxTracked == 2
MaxDeleted == 1
\* The size of the answers when two runs in a row are followed.
RerunMax == 1

VARIABLES
    \* package-level flags (cleanup.go:20-25)
    cleanupDryRun, cleanupGC, cleanupOnlyPolecats, cleanupOnlyConvoys,
    \* runCleanup
    pc, rigsConfig, rigs, retErr,
    totalPolecatsNuked, totalConvoysClosed, totalBranchesGCed,
    polecatsErr, convoysErr, gcErr, summary,
    \* cleanupDonePolecats
    ri, polecats, donePolecats, pi, running, totalNuked,
    \* previewCompletedConvoys / checkAndCloseCompletedConvoys
    convoys, ci, tracked, completed, closed,
    \* cleanupStaleBranches
    gi, totalDeleted,
    \* observation of the collaborators
    call, stopRes, rigLog, doneSeen, removeCalls, removeFailures,
    convLog, gcLog,
    \* what the collaborators have answered so far, kept when runs in a row are
    \* followed, and the results of the runs before this one
    world, history

flagVars == <<cleanupDryRun, cleanupGC, cleanupOnlyPolecats, cleanupOnlyConvoys>>
runVars == <<rigsConfig, rigs, retErr, totalPolecatsNuked, totalConvoysClosed,
             totalBranchesGCed, polecatsErr, convoysErr, gcErr, summary>>
polecatVars == <<ri, polecats, donePolecats, pi, running, totalNuked>>
convoyVars == <<convoys, ci, tracked, completed, closed>>
gcVars == <<gi, totalDeleted>>
polecatObs == <<stopRes, rigLog, doneSeen, removeCalls, removeFailures>>
obsVars == <<polecatObs, convLog, gcLog>>
envVars == <<world, history>>
vars == <<flagVars, envVars, pc, runVars, polecatVars, convoyVars, gcVars, call,
          obsVars>>

----------------------------------------------------------------------------
\* Values

StateDone == "done"
StateWorking == "working"
PolecatStates == {StateDone, StateWorking}

IssueStatuses == {"closed", "tombstone", "open"}

\* All sequences over S of length at most n.
SeqsUpTo(S, n) == UNION {[1..k -> S] : k \in 0..n}

NoCall == [op |-> "none", rig |-> 0, unit |-> 0, res |-> "none"]
Call(op, r, u, res) == [op |-> op, rig |-> r, unit |-> u, res |-> res]

\* What the collaborators of one rig were asked and answered during the
\* polecat pass.
NewRigLog == [listed |-> "pending", done |-> 0, removes |-> 0, failed |-> 0,
              counted |-> 0]

\* What the store was asked and answered during the convoy pass: convoys whose
\* tracked issues were fetched, those of them with no tracked issue, those with
\* at least one tracked issue and none in another status than closed or
\* tombstone, and the close calls.
NewConvLog == [listed |-> "pending", evaluated |-> 0, empty |-> 0,
               resolved |-> 0, closeCalls |-> 0, closeOK |-> 0]

\* The summary lines not printed yet.
NoSummary == [polecats |-> "unprinted", convoys |-> "unprinted",
              branches |-> "unprinted"]

\* A polecat as returned by mgr.List(), with the removal attempts made on it.
NewPolecat(st) == [state |-> st, removes |-> 0, removed |-> "none"]

\* The answer of a collaborator: its result, a number, a list.
Answer(res, n, xs) == [res |-> res, n |-> n, xs |-> xs]

\* The questions put to the collaborators: the call, the rig, the convoy.
Question(op, r, c) == <<op, r, c>>

\* The world is the answers given so far, in the order of the questions.  It
\* is kept only when two runs in a row are followed (on); a single run takes
\* any answer at any call.
NoWorld == [on |-> FALSE, ans |-> <<>>]

Asked(q) == {i \in 1..Len(world.ans) : world.ans[i].q = q}

\* An unchanged world gives the answer it gave before.
Allowed(q, a) ==
    \/ ~world.on
    \/ Asked(q) = {}
    \/ \E i \in Asked(q) : world.ans[i].a = a

\* A new answer is kept for the run to come; the second run is the last to
\* ask, and an answer it has got is kept no longer.
Learn(q, a) ==
    IF ~world.on THEN world
    ELSE IF Asked(q) = {}
         THEN [world EXCEPT !.ans = Append(@, [q |-> q, a |-> a])]
         ELSE IF history = <<>> THEN world
              ELSE [world EXCEPT !.ans = SelectSeq(@, LAMBDA e : e.q # q)]

\* The bound on an answer: n for a single run, RerunMax for two in a row.
Cap(n) == IF world.on THEN RerunMax ELSE n

----------------------------------------------------------------------------
\* Pure pieces of the code

\* cleanup.go:60
cleanBoth == ~cleanupOnlyPolecats /\ ~cleanupOnlyConvoys

\* cleanup.go:93
RunPolecats == cleanBoth \/ cleanupOnlyPolecats

\* cleanup.go:102
RunConvoys == cleanBoth \/ cleanupOnlyConvoys

\* cleanup.go:112
RunGC == cleanupGC /\ (cleanBoth \/ cleanupOnlyPolecats)

IsDone_Any(p) == TRUE

\* cleanup.go:173
IsDone(p) == p.state = StateDone

\* cleanup.go:171-176: the indices (names) of the done polecats, in list order.
FilterDone(ps) == SelectSeq([i \in 1..Len(ps) |-> i], LAMBDA i : IsDone(ps[i]))

Blocks_OnlyClosed(status) == status # "closed"

\* cleanup.go:276
Blocks(status) == status # "closed" /\ status # "tombstone"

\* cleanup.go:274-280: the loop over the tracked issues, with its break.
RECURSIVE AllClosedFrom(_, _)
AllClosedFrom(tr, i) ==
    IF i > Len(tr) THEN TRUE
    ELSE IF Blocks(tr[i]) THEN FALSE
    ELSE AllClosedFrom(tr, i + 1)

IsCompleted_NoEmptyCheck(tr) == AllClosedFrom(tr, 1)

\* cleanup.go:270-284
IsCompleted(tr) == IF Len(tr) = 0 THEN FALSE ELSE AllClosedFrom(tr, 1)

----------------------------------------------------------------------------
\* Initial state: the flags are whatever the command line set.

\* The state of a process that has just entered runCleanup.
Fresh ==
    /\ pc = "FindFromCwdOrError"
    /\ rigsConfig = "unset"
    /\ rigs = <<>>
    /\ retErr = "none"
    /\ totalPolecatsNuked = 0
    /\ totalConvoysClosed = 0
    /\ totalBranchesGCed = 0
    /\ polecatsErr = "none"
    /\ convoysErr = "none"
    /\ gcErr = "none"
    /\ summary = NoSummary
    /\ ri = 0
    /\ polecats = <<>>
    /\ donePolecats = <<>>
    /\ pi = 0
    /\ running = FALSE
    /\ totalNuked = 0
    /\ convoys = 0
    /\ ci = 0
    /\ tracked = <<>>
    /\ completed = <<>>
    /\ closed = <<>>
    /\ gi = 0
    /\ totalDeleted = 0
    /\ call = NoCall
    /\ stopRes = "none"
    /\ rigLog = <<>>
    /\ doneSeen = 0
    /\ removeCalls = 0
    /\ removeFailures = 0
    /\ convLog = NewConvLog
    /\ gcLog = [status |-> <<>>, deleted |-> 0]

Init ==
    /\ cleanupDryRun \in BOOLEAN
    /\ cleanupGC \in BOOLEAN
    /\ cleanupOnlyPolecats \in BOOLEAN
    /\ cleanupOnlyConvoys \in BOOLEAN
    /\ world = NoWorld
    /\ history = <<>>
    /\ Fresh

----------------------------------------------------------------------------
\* runCleanup, up to the first pass (cleanup.go:58-90)

FindWorkspaceOK ==
    /\ pc = "FindFromCwdOrError"
    /\ pc' = "LoadRigsConfig"
    /\ call' = Call("FindFromCwdOrError", 0, 0, "ok")
    /\ Allowed(Question("FindFromCwdOrError", 0, 0), Answer("ok", 0, <<>>))
    /\ world' = Learn(Question("FindFromCwdOrError", 0, 0), Answer("ok", 0, <<>>))
    /\ UNCHANGED <<flagVars, history, runVars, polecatVars, convoyVars, gcVars, obsVars>>

FindWorkspaceFail ==
    /\ pc = "FindFromCwdOrError"
    /\ retErr' = "not in a Gas Town workspace"
    /\ pc' = "returned"
    /\ call' = Call("FindFromCwdOrError", 0, 0, "fail")
    /\ Allowed(Question("FindFromCwdOrError", 0, 0), Answer("fail", 0, <<>>))
    /\ world' = Learn(Question("FindFromCwdOrError", 0, 0), Answer("fail", 0, <<>>))
    /\ UNCHANGED <<flagVars, history, rigsConfig, rigs, totalPolecatsNuked,
                   totalConvoysClosed, totalBranchesGCed, polecatsErr,
                   convoysErr, gcErr, summary, polecatVars, convoyVars,
                   gcVars, obsVars>>

\* A config that cannot be read is replaced by an empty one and the run goes on.
LoadRigsConfig ==
    /\ pc = "LoadRigsConfig"
    /\ \E ok \in BOOLEAN :
          LET q == Question("LoadRigsConfig", 0, 0)
              a == Answer(IF ok THEN "ok" ELSE "fail", 0, <<>>)
          IN  /\ Allowed(q, a)
              /\ world' = Learn(q, a)
              /\ rigsConfig' = IF ok THEN "loaded" ELSE "empty"
              /\ call' = Call("LoadRigsConfig", 0, 0, a.res)
    /\ pc' = "DiscoverRigs"
    /\ UNCHANGED <<flagVars, history, rigs, retErr, totalPolecatsNuked,
                   totalConvoysClosed, totalBranchesGCed, polecatsErr,
                   convoysErr, gcErr, summary, polecatVars, convoyVars,
                   gcVars, obsVars>>

\* rig.NewManager takes the config; DiscoverRigs returns the rigs, here named
\* 1..n.  The result of DiscoverRigs is the manager's business, so any number of
\* rigs may come back.
DiscoverRigsOK ==
    /\ pc = "DiscoverRigs"
    /\ \E n \in 0..Cap(MaxRigs) :
          /\ Allowed(Question("DiscoverRigs", 0, 0), Answer("ok", n, <<>>))
          /\ world' = Learn(Question("DiscoverRigs", 0, 0), Answer("ok", n, <<>>))
          /\ rigs' = [i \in 1..n |-> i]
          /\ rigLog' = [i \in 1..n |-> NewRigLog]
          /\ gcLog' = [status |-> [i \in 1..n |-> "pending"], deleted |-> 0]
    /\ rigsConfig' = "used"
    /\ pc' = "PolecatsPass"
    /\ call' = Call("DiscoverRigs", 0, 0, "ok")
    /\ UNCHANGED <<flagVars, history, retErr, totalPolecatsNuked, totalConvoysClosed,
                   totalBranchesGCed, polecatsErr, convoysErr, gcErr, summary,
                   polecatVars, convoyVars, gcVars, stopRes, doneSeen,
                   removeCalls, removeFailures, convLog>>

\* The discovery error is dropped and the run goes on with no rig.
DiscoverRigsFail_GoOn ==
    /\ pc = "DiscoverRigs"
    /\ rigsConfig' = "used"
    /\ pc' = "PolecatsPass"
    /\ call' = Call("DiscoverRigs", 0, 0, "fail")
    /\ Allowed(Question("DiscoverRigs", 0, 0), Answer("fail", 0, <<>>))
    /\ world' = Learn(Question("DiscoverRigs", 0, 0), Answer("fail", 0, <<>>))
    /\ UNCHANGED <<flagVars, history, rigs, retErr, totalPolecatsNuked,
                   totalConvoysClosed, totalBranchesGCed, polecatsErr,
                   convoysErr, gcErr, summary, polecatVars, convoyVars,
                   gcVars, obsVars>>

\* cleanup.go:74-80
DiscoverRigsFail ==
    /\ pc = "DiscoverRigs"
    /\ retErr' = "discovering rigs"
    /\ rigsConfig' = "used"
    /\ pc' = "returned"
    /\ call' = Call("DiscoverRigs", 0, 0, "fail")
    /\ Allowed(Question("DiscoverRigs", 0, 0), Answer("fail", 0, <<>>))
    /\ world' = Learn(Question("DiscoverRigs", 0, 0), Answer("fail", 0, <<>>))
    /\ UNCHANGED <<flagVars, history, rigs, totalPolecatsNuked, totalConvoysClosed,
                   totalBranchesGCed, polecatsErr, convoysErr, gcErr, summary,
                   polecatVars, convoyVars, gcVars, obsVars>>

----------------------------------------------------------------------------
\* cleanupDonePolecats (cleanup.go:156-218), called at cleanup.go:93-99

EnterPolecats ==
    /\ pc = "PolecatsPass"
    /\ RunPolecats
    /\ ri' = 1
    /\ totalNuked' = 0
    /\ pc' = "P_rig"
    /\ call' = NoCall
    /\ UNCHANGED <<flagVars, envVars, runVars, polecats, donePolecats, pi, running,
                   convoyVars, gcVars, obsVars>>

SkipPolecats ==
    /\ pc = "PolecatsPass"
    /\ ~RunPolecats
    /\ pc' = "ConvoysPass"
    /\ call' = NoCall
    /\ UNCHANGED <<flagVars, envVars, runVars, polecatVars, convoyVars, gcVars, obsVars>>

\* The listing fails and the pass returns at once.
P_ListFail_Return ==
    /\ pc = "P_rig"
    /\ ri <= Len(rigs)
    /\ rigLog' = [rigLog EXCEPT ![ri].listed = "error"]
    /\ ri' = Len(rigs) + 1
    /\ call' = Call("List", ri, 0, "fail")
    /\ Allowed(Question("List", ri, 0), Answer("fail", 0, <<>>))
    /\ world' = Learn(Question("List", ri, 0), Answer("fail", 0, <<>>))
    /\ UNCHANGED <<flagVars, history, pc, runVars, polecats, donePolecats, pi, running,
                   totalNuked, convoyVars, gcVars, stopRes, doneSeen,
                   removeCalls, removeFailures, convLog, gcLog>>

\* cleanup.go:164-168: the listing fails, warn and go to the next rig.
P_ListFail ==
    /\ pc = "P_rig"
    /\ ri <= Len(rigs)
    /\ rigLog' = [rigLog EXCEPT ![ri].listed = "error"]
    /\ ri' = ri + 1
    /\ call' = Call("List", ri, 0, "fail")
    /\ Allowed(Question("List", ri, 0), Answer("fail", 0, <<>>))
    /\ world' = Learn(Question("List", ri, 0), Answer("fail", 0, <<>>))
    /\ UNCHANGED <<flagVars, history, pc, runVars, polecats, donePolecats, pi, running,
                   totalNuked, convoyVars, gcVars, stopRes, doneSeen,
                   removeCalls, removeFailures, convLog, gcLog>>

\* cleanup.go:164-182: the listing succeeds; filter the done polecats; a rig
\* with none is left at once.
P_ListOK ==
    /\ pc = "P_rig"
    /\ ri <= Len(rigs)
    /\ \E sts \in SeqsUpTo(PolecatStates, Cap(MaxUnits)) :
          LET ps == [i \in 1..Len(sts) |-> NewPolecat(sts[i])]
              dn == FilterDone(ps)
              nd == Cardinality({i \in 1..Len(sts) : sts[i] = StateDone})
          IN  /\ Allowed(Question("List", ri, 0), Answer("ok", 0, sts))
              /\ world' = Learn(Question("List", ri, 0), Answer("ok", 0, sts))
              /\ rigLog' = [rigLog EXCEPT ![ri].listed = "ok", ![ri].done = nd]
              /\ doneSeen' = doneSeen + nd
              /\ IF Len(dn) = 0
                 THEN /\ ri' = ri + 1
                      /\ UNCHANGED <<pc, polecats, donePolecats, pi>>
                 ELSE /\ polecats' = ps
                      /\ donePolecats' = dn
                      /\ pi' = 1
                      /\ pc' = "P_unit"
                      /\ UNCHANGED ri
    /\ call' = Call("List", ri, 0, "ok")
    /\ UNCHANGED <<flagVars, history, runVars, running, totalNuked, convoyVars, gcVars,
                   stopRes, removeCalls, removeFailures, convLog, gcLog>>

\* cleanup.go:184, loop exit: the locals of this rig go out of scope.
P_NextRig ==
    /\ pc = "P_unit"
    /\ pi > Len(donePolecats)
    /\ ri' = ri + 1
    /\ polecats' = <<>>
    /\ donePolecats' = <<>>
    /\ pi' = 0
    /\ running' = FALSE
    /\ stopRes' = "none"
    /\ pc' = "P_rig"
    /\ call' = NoCall
    /\ UNCHANGED <<flagVars, envVars, runVars, totalNuked, convoyVars, gcVars, rigLog,
                   doneSeen, removeCalls, removeFailures, convLog, gcLog>>

DryRunGuard_Off == FALSE

\* cleanup.go:185
DryRunGuard == cleanupDryRun

\* The list without its i-th element.
RemoveAt(xs, i) == [j \in 1..(Len(xs) - 1) |-> IF j < i THEN xs[j] ELSE xs[j + 1]]

\* The dry-run check comes too late: the polecat is removed and then reported.
\* The done polecats before it in the rig are gone from the world already.
P_WouldNuke_Removes ==
    /\ pc = "P_unit"
    /\ pi <= Len(donePolecats)
    /\ DryRunGuard
    /\ totalNuked' = totalNuked + 1
    /\ rigLog' = [rigLog EXCEPT ![ri].counted = @ + 1]
    /\ pi' = pi + 1
    /\ call' = NoCall
    /\ world' = [world EXCEPT !.ans =
                    [i \in 1..Len(@) |->
                        IF @[i].q = Question("List", ri, 0)
                        THEN [@[i] EXCEPT !.a.xs =
                                 RemoveAt(@, donePolecats[pi] - (pi - 1))]
                        ELSE @[i]]]
    /\ UNCHANGED <<flagVars, history, pc, runVars, ri, polecats, donePolecats,
                   running, convoyVars, gcVars, stopRes, doneSeen, removeCalls,
                   removeFailures, convLog, gcLog>>

\* cleanup.go:185-189
P_WouldNuke ==
    /\ pc = "P_unit"
    /\ pi <= Len(donePolecats)
    /\ DryRunGuard
    /\ totalNuked' = totalNuked + 1
    /\ rigLog' = [rigLog EXCEPT ![ri].counted = @ + 1]
    /\ pi' = pi + 1
    /\ call' = NoCall
    /\ UNCHANGED <<flagVars, envVars, pc, runVars, ri, polecats, donePolecats, running,
                   convoyVars, gcVars, stopRes, doneSeen, removeCalls,
                   removeFailures, convLog, gcLog>>

\* The session is not queried and taken as not running.
P_IsRunning_NoQuery ==
    /\ pc = "P_unit"
    /\ pi <= Len(donePolecats)
    /\ ~DryRunGuard
    /\ running' = FALSE
    /\ pc' = "P_remove"
    /\ call' = NoCall
    /\ stopRes' = "none"
    /\ UNCHANGED <<flagVars, envVars, runVars, ri, polecats, donePolecats, pi,
                   totalNuked, convoyVars, gcVars, rigLog, doneSeen,
                   removeCalls, removeFailures, convLog, gcLog>>

\* Stop is called whatever IsRunning answered.
P_IsRunning_AlwaysStop ==
    /\ pc = "P_unit"
    /\ pi <= Len(donePolecats)
    /\ ~DryRunGuard
    /\ \E r \in BOOLEAN :
          /\ running' = r
          /\ pc' = "P_stop"
          /\ call' = Call("IsRunning", ri, donePolecats[pi],
                          IF r THEN "true" ELSE "false")
    /\ stopRes' = "none"
    /\ UNCHANGED <<flagVars, envVars, runVars, ri, polecats, donePolecats, pi,
                   totalNuked, convoyVars, gcVars, rigLog, doneSeen,
                   removeCalls, removeFailures, convLog, gcLog>>

\* cleanup.go:194-196: the error of IsRunning is dropped, `running` is used.
P_IsRunning ==
    /\ pc = "P_unit"
    /\ pi <= Len(donePolecats)
    /\ ~DryRunGuard
    /\ \E r \in BOOLEAN :
          /\ running' = r
          /\ pc' = IF r THEN "P_stop" ELSE "P_remove"
          /\ call' = Call("IsRunning", ri, donePolecats[pi],
                          IF r THEN "true" ELSE "false")
    /\ stopRes' = "none"
    /\ UNCHANGED <<flagVars, envVars, runVars, ri, polecats, donePolecats, pi,
                   totalNuked, convoyVars, gcVars, rigLog, doneSeen,
                   removeCalls, removeFailures, convLog, gcLog>>

\* A failed Stop gives the polecat up instead of going on to Remove.
P_Stop_SkipOnFail ==
    /\ pc = "P_stop"
    /\ \E ok \in BOOLEAN :
          /\ stopRes' = IF ok THEN "ok" ELSE "fail"
          /\ call' = Call("Stop", ri, donePolecats[pi],
                          IF ok THEN "ok" ELSE "fail")
          /\ IF ok THEN pc' = "P_remove" /\ UNCHANGED pi
                   ELSE pc' = "P_unit" /\ pi' = pi + 1
    /\ UNCHANGED <<flagVars, envVars, runVars, ri, polecats, donePolecats, running,
                   totalNuked, convoyVars, gcVars, rigLog, doneSeen,
                   removeCalls, removeFailures, convLog, gcLog>>

\* cleanup.go:197: the error of Stop is dropped.
P_Stop ==
    /\ pc = "P_stop"
    /\ \E ok \in BOOLEAN :
          /\ stopRes' = IF ok THEN "ok" ELSE "fail"
          /\ call' = Call("Stop", ri, donePolecats[pi],
                          IF ok THEN "ok" ELSE "fail")
    /\ pc' = "P_remove"
    /\ UNCHANGED <<flagVars, envVars, runVars, polecatVars, convoyVars, gcVars, rigLog,
                   doneSeen, removeCalls, removeFailures, convLog, gcLog>>

\* cleanup.go:201, mgr.Remove returns nil.
P_RemoveOK ==
    /\ pc = "P_remove"
    /\ polecats' = [polecats EXCEPT ![donePolecats[pi]].removes = @ + 1,
                                    ![donePolecats[pi]].removed = "ok"]
    /\ removeCalls' = removeCalls + 1
    /\ rigLog' = [rigLog EXCEPT ![ri].removes = @ + 1]
    /\ pc' = "P_bead"
    /\ call' = Call("Remove", ri, donePolecats[pi], "ok")
    /\ UNCHANGED <<flagVars, envVars, runVars, ri, donePolecats, pi, running,
                   totalNuked, convoyVars, gcVars, stopRes, doneSeen,
                   removeFailures, convLog, gcLog>>

\* A polecat whose Remove failed is counted all the same.
P_RemoveFail_Counted ==
    /\ pc = "P_remove"
    /\ polecats' = [polecats EXCEPT ![donePolecats[pi]].removes = @ + 1,
                                    ![donePolecats[pi]].removed = "fail"]
    /\ removeCalls' = removeCalls + 1
    /\ removeFailures' = removeFailures + 1
    /\ rigLog' = [rigLog EXCEPT ![ri].removes = @ + 1, ![ri].failed = @ + 1]
    /\ totalNuked' = totalNuked + 1
    /\ pi' = pi + 1
    /\ pc' = "P_unit"
    /\ call' = Call("Remove", ri, donePolecats[pi], "fail")
    /\ UNCHANGED <<flagVars, envVars, runVars, ri, donePolecats, running,
                   convoyVars, gcVars, stopRes, doneSeen, convLog, gcLog>>

\* Remove failed and the rest of the rig is given up.
P_RemoveFail_Break ==
    /\ pc = "P_remove"
    /\ polecats' = [polecats EXCEPT ![donePolecats[pi]].removes = @ + 1,
                                    ![donePolecats[pi]].removed = "fail"]
    /\ removeCalls' = removeCalls + 1
    /\ removeFailures' = removeFailures + 1
    /\ rigLog' = [rigLog EXCEPT ![ri].removes = @ + 1, ![ri].failed = @ + 1]
    /\ pi' = Len(donePolecats) + 1
    /\ pc' = "P_unit"
    /\ call' = Call("Remove", ri, donePolecats[pi], "fail")
    /\ UNCHANGED <<flagVars, envVars, runVars, ri, donePolecats, running, totalNuked,
                   convoyVars, gcVars, stopRes, doneSeen, convLog, gcLog>>

\* cleanup.go:201-204, mgr.Remove returns an error: print it and continue with
\* the next done polecat.
P_RemoveFail ==
    /\ pc = "P_remove"
    /\ polecats' = [polecats EXCEPT ![donePolecats[pi]].removes = @ + 1,
                                    ![donePolecats[pi]].removed = "fail"]
    /\ removeCalls' = removeCalls + 1
    /\ removeFailures' = removeFailures + 1
    /\ rigLog' = [rigLog EXCEPT ![ri].removes = @ + 1, ![ri].failed = @ + 1]
    /\ pi' = pi + 1
    /\ pc' = "P_unit"
    /\ call' = Call("Remove", ri, donePolecats[pi], "fail")
    /\ UNCHANGED <<flagVars, envVars, runVars, ri, donePolecats, running, totalNuked,
                   convoyVars, gcVars, stopRes, doneSeen, convLog, gcLog>>

\* The polecat is counted only if its agent bead could be closed.
P_CloseBead_CountIfClosed ==
    /\ pc = "P_bead"
    /\ \E ok \in BOOLEAN :
          /\ call' = Call("bd close agent", ri, donePolecats[pi],
                          IF ok THEN "ok" ELSE "fail")
          /\ totalNuked' = IF ok THEN totalNuked + 1 ELSE totalNuked
          /\ rigLog' = IF ok THEN [rigLog EXCEPT ![ri].counted = @ + 1]
                             ELSE rigLog
    /\ pi' = pi + 1
    /\ pc' = "P_unit"
    /\ UNCHANGED <<flagVars, envVars, runVars, ri, polecats, donePolecats, running,
                   convoyVars, gcVars, stopRes, doneSeen, removeCalls,
                   removeFailures, convLog, gcLog>>

\* cleanup.go:206-213: close the agent bead, best effort, and count the polecat.
P_CloseBead ==
    /\ pc = "P_bead"
    /\ \E ok \in BOOLEAN :
          call' = Call("bd close agent", ri, donePolecats[pi],
                       IF ok THEN "ok" ELSE "fail")
    /\ totalNuked' = totalNuked + 1
    /\ rigLog' = [rigLog EXCEPT ![ri].counted = @ + 1]
    /\ pi' = pi + 1
    /\ pc' = "P_unit"
    /\ UNCHANGED <<flagVars, envVars, runVars, ri, polecats, donePolecats, running,
                   convoyVars, gcVars, stopRes, doneSeen, removeCalls,
                   removeFailures, convLog, gcLog>>

\* The polecat pass hands over to the branch pass, leaving the convoys out.
P_Return_ToGC ==
    /\ pc = "P_rig"
    /\ ri > Len(rigs)
    /\ totalPolecatsNuked' = totalNuked
    /\ polecatsErr' = "nil"
    /\ ri' = 0
    /\ totalNuked' = 0
    /\ rigLog' = [i \in 1..Len(rigs) |-> NewRigLog]
    /\ pc' = "GCPass"
    /\ call' = NoCall
    /\ UNCHANGED <<flagVars, envVars, rigsConfig, rigs, retErr, totalConvoysClosed,
                   totalBranchesGCed, convoysErr, gcErr, summary, polecats,
                   donePolecats, pi, running, convoyVars, gcVars, stopRes,
                   doneSeen, removeCalls, removeFailures, convLog, gcLog>>

\* cleanup.go:217 and 94-98: return totalNuked, nil.  The locals of the pass go
\* out of scope and the per-rig log of the pass is closed; the totals stay.
P_Return ==
    /\ pc = "P_rig"
    /\ ri > Len(rigs)
    /\ totalPolecatsNuked' = totalNuked
    /\ polecatsErr' = "nil"
    /\ ri' = 0
    /\ totalNuked' = 0
    /\ rigLog' = [i \in 1..Len(rigs) |-> NewRigLog]
    /\ pc' = "ConvoysPass"
    /\ call' = NoCall
    /\ UNCHANGED <<flagVars, envVars, rigsConfig, rigs, retErr, totalConvoysClosed,
                   totalBranchesGCed, convoysErr, gcErr, summary, polecats,
                   donePolecats, pi, running, convoyVars, gcVars, stopRes,
                   doneSeen, removeCalls, removeFailures, convLog, gcLog>>

----------------------------------------------------------------------------
\* cleanupCompletedConvoys (cleanup.go:221-245), called at cleanup.go:101-109

\* What the store holds for one convoy: whether it tracks an issue at all, and
\* how many tracked issues are in another status than closed or tombstone.
Unresolved(tr) ==
    Cardinality({i \in 1..Len(tr) : tr[i] \notin {"closed", "tombstone"}})

Observe(log, tr) ==
    [log EXCEPT !.evaluated = @ + 1,
                !.empty = IF Len(tr) = 0 THEN @ + 1 ELSE @,
                !.resolved = IF Len(tr) > 0 /\ Unresolved(tr) = 0
                             THEN @ + 1 ELSE @]

EnterConvoys ==
    /\ pc = "ConvoysPass"
    /\ RunConvoys
    /\ pc' = IF cleanupDryRun THEN "V_list" ELSE "K_list"
    /\ call' = NoCall
    /\ UNCHANGED <<flagVars, envVars, runVars, polecatVars, convoyVars, gcVars, obsVars>>

SkipConvoys ==
    /\ pc = "ConvoysPass"
    /\ ~RunConvoys
    /\ pc' = "GCPass"
    /\ call' = NoCall
    /\ UNCHANGED <<flagVars, envVars, runVars, polecatVars, convoyVars, gcVars, obsVars>>

\* The listing error is returned to runCleanup as the error of the run.
V_ListFail_Abort ==
    /\ pc = "V_list"
    /\ \E e \in {"listing convoys", "parsing convoy list"} :
          /\ Allowed(Question("bd list convoys", 0, 0), Answer(e, 0, <<>>))
          /\ world' = Learn(Question("bd list convoys", 0, 0), Answer(e, 0, <<>>))
          /\ convoysErr' = e
          /\ retErr' = e
    /\ pc' = "returned"
    /\ convLog' = [convLog EXCEPT !.listed = "error"]
    /\ call' = Call("bd list convoys", 0, 0, "fail")
    /\ UNCHANGED <<flagVars, history, rigsConfig, rigs, totalPolecatsNuked,
                   totalConvoysClosed, totalBranchesGCed, polecatsErr, gcErr,
                   summary, polecatVars, convoyVars, gcVars, polecatObs, gcLog>>

\* cleanup.go:251-264, 224-227, 104-108: bd list fails or its output does not
\* parse; the pass returns (0, err), runCleanup warns and goes on.
V_ListFail ==
    /\ pc = "V_list"
    /\ \E e \in {"listing convoys", "parsing convoy list"} :
          /\ Allowed(Question("bd list convoys", 0, 0), Answer(e, 0, <<>>))
          /\ world' = Learn(Question("bd list convoys", 0, 0), Answer(e, 0, <<>>))
          /\ convoysErr' = e
    /\ totalConvoysClosed' = 0
    /\ pc' = "GCPass"
    /\ convLog' = [convLog EXCEPT !.listed = "error"]
    /\ call' = Call("bd list convoys", 0, 0, "fail")
    /\ UNCHANGED <<flagVars, history, rigsConfig, rigs, retErr, totalPolecatsNuked,
                   totalBranchesGCed, polecatsErr, gcErr, summary, polecatVars,
                   convoyVars, gcVars, polecatObs, gcLog>>

\* cleanup.go:251-266: the open convoys, here named 1..n.
V_ListOK ==
    /\ pc = "V_list"
    /\ \E n \in 0..Cap(MaxConvoys) :
          /\ Allowed(Question("bd list convoys", 0, 0), Answer("ok", n, <<>>))
          /\ world' = Learn(Question("bd list convoys", 0, 0), Answer("ok", n, <<>>))
          /\ convoys' = n
    /\ ci' = 1
    /\ completed' = <<>>
    /\ pc' = "V_convoy"
    /\ convLog' = [convLog EXCEPT !.listed = "ok"]
    /\ call' = Call("bd list convoys", 0, 0, "ok")
    /\ UNCHANGED <<flagVars, history, runVars, polecatVars, tracked, closed, gcVars,
                   polecatObs, gcLog>>

\* cleanup.go:267-269: the tracked issues of the next open convoy.
V_Convoy ==
    /\ pc = "V_convoy"
    /\ ci <= convoys
    /\ \E tr \in SeqsUpTo(IssueStatuses, Cap(MaxTracked)) :
          /\ Allowed(Question("getTrackedIssues", 0, ci), Answer("ok", 0, tr))
          /\ world' = Learn(Question("getTrackedIssues", 0, ci), Answer("ok", 0, tr))
          /\ tracked' = tr
          /\ convLog' = Observe(convLog, tr)
    /\ pc' = "V_check"
    /\ call' = Call("getTrackedIssues", 0, ci, "ok")
    /\ UNCHANGED <<flagVars, history, runVars, polecatVars, convoys, ci, completed,
                   closed, gcVars, polecatObs, gcLog>>

\* cleanup.go:270-285: classify the convoy; `tracked` ends with the iteration.
V_Check ==
    /\ pc = "V_check"
    /\ completed' = IF IsCompleted(tracked) THEN Append(completed, ci)
                    ELSE completed
    /\ tracked' = <<>>
    /\ ci' = ci + 1
    /\ pc' = "V_convoy"
    /\ call' = NoCall
    /\ UNCHANGED <<flagVars, envVars, runVars, polecatVars, convoys, closed, gcVars,
                   obsVars>>

\* cleanup.go:287, 228-231, 104-108.  The locals of the pass go out of scope
\* and the log of the pass is closed; the closed total stays.
V_Return ==
    /\ pc = "V_convoy"
    /\ ci > convoys
    /\ totalConvoysClosed' = Len(completed)
    /\ convoysErr' = "nil"
    /\ convoys' = 0
    /\ ci' = 0
    /\ tracked' = <<>>
    /\ completed' = <<>>
    /\ closed' = <<>>
    /\ convLog' = [NewConvLog EXCEPT !.listed = "ok"]
    /\ pc' = "GCPass"
    /\ call' = NoCall
    /\ UNCHANGED <<flagVars, envVars, rigsConfig, rigs, retErr, totalPolecatsNuked,
                   totalBranchesGCed, polecatsErr, gcErr, summary, polecatVars,
                   gcVars, polecatObs, gcLog>>

\* checkAndCloseCompletedConvoys (convoy.go) is called at cleanup.go:235; its
\* error is handled at cleanup.go:236-238 and 105-108 like the preview's.
K_ListFail ==
    /\ pc = "K_list"
    /\ convoysErr' = "listing convoys"
    /\ totalConvoysClosed' = 0
    /\ pc' = "GCPass"
    /\ convLog' = [convLog EXCEPT !.listed = "error"]
    /\ call' = Call("bd list convoys", 0, 0, "fail")
    /\ UNCHANGED <<flagVars, envVars, rigsConfig, rigs, retErr, totalPolecatsNuked,
                   totalBranchesGCed, polecatsErr, gcErr, summary, polecatVars,
                   convoyVars, gcVars, polecatObs, gcLog>>

K_ListOK ==
    /\ pc = "K_list"
    /\ \E n \in 0..MaxConvoys : convoys' = n
    /\ ci' = 1
    /\ closed' = <<>>
    /\ pc' = "K_convoy"
    /\ convLog' = [convLog EXCEPT !.listed = "ok"]
    /\ call' = Call("bd list convoys", 0, 0, "ok")
    /\ UNCHANGED <<flagVars, envVars, runVars, polecatVars, tracked, completed, gcVars,
                   polecatObs, gcLog>>

K_Convoy ==
    /\ pc = "K_convoy"
    /\ ci <= convoys
    /\ \E tr \in SeqsUpTo(IssueStatuses, MaxTracked) :
          /\ tracked' = tr
          /\ convLog' = Observe(convLog, tr)
    /\ pc' = "K_check"
    /\ call' = Call("getTrackedIssues", 0, ci, "ok")
    /\ UNCHANGED <<flagVars, envVars, runVars, polecatVars, convoys, ci, completed,
                   closed, gcVars, polecatObs, gcLog>>

\* The same classification as the preview (cleanup.go:247-248), then the close.
K_Check ==
    /\ pc = "K_check"
    /\ IF IsCompleted(tracked)
       THEN pc' = "K_close" /\ UNCHANGED <<ci, tracked>>
       ELSE pc' = "K_convoy" /\ ci' = ci + 1 /\ tracked' = <<>>
    /\ call' = NoCall
    /\ UNCHANGED <<flagVars, envVars, runVars, polecatVars, convoys, completed, closed,
                   gcVars, obsVars>>

K_CloseOK ==
    /\ pc = "K_close"
    /\ closed' = Append(closed, ci)
    /\ tracked' = <<>>
    /\ convLog' = [convLog EXCEPT !.closeCalls = @ + 1, !.closeOK = @ + 1]
    /\ ci' = ci + 1
    /\ pc' = "K_convoy"
    /\ call' = Call("bd close convoy", 0, ci, "ok")
    /\ UNCHANGED <<flagVars, envVars, runVars, polecatVars, convoys, completed,
                   gcVars, polecatObs, gcLog>>

K_CloseFail ==
    /\ pc = "K_close"
    /\ convLog' = [convLog EXCEPT !.closeCalls = @ + 1]
    /\ tracked' = <<>>
    /\ ci' = ci + 1
    /\ pc' = "K_convoy"
    /\ call' = Call("bd close convoy", 0, ci, "fail")
    /\ UNCHANGED <<flagVars, envVars, runVars, polecatVars, convoys, completed,
                   closed, gcVars, polecatObs, gcLog>>

\* The pass returns the number of open convoys instead of the closed ones.
K_Return_CountsListed ==
    /\ pc = "K_convoy"
    /\ ci > convoys
    /\ totalConvoysClosed' = convoys
    /\ convoysErr' = "nil"
    /\ convoys' = 0
    /\ ci' = 0
    /\ tracked' = <<>>
    /\ completed' = <<>>
    /\ closed' = <<>>
    /\ convLog' = [NewConvLog EXCEPT !.listed = "ok"]
    /\ pc' = "GCPass"
    /\ call' = NoCall
    /\ UNCHANGED <<flagVars, envVars, rigsConfig, rigs, retErr, totalPolecatsNuked,
                   totalBranchesGCed, polecatsErr, gcErr, summary, polecatVars,
                   gcVars, polecatObs, gcLog>>

\* cleanup.go:240-244, 104-108.  The locals of the pass go out of scope
\* and the log of the pass is closed; the closed total stays.
K_Return ==
    /\ pc = "K_convoy"
    /\ ci > convoys
    /\ totalConvoysClosed' = Len(closed)
    /\ convoysErr' = "nil"
    /\ convoys' = 0
    /\ ci' = 0
    /\ tracked' = <<>>
    /\ completed' = <<>>
    /\ closed' = <<>>
    /\ convLog' = [NewConvLog EXCEPT !.listed = "ok"]
    /\ pc' = "GCPass"
    /\ call' = NoCall
    /\ UNCHANGED <<flagVars, envVars, rigsConfig, rigs, retErr, totalPolecatsNuked,
                   totalBranchesGCed, polecatsErr, gcErr, summary, polecatVars,
                   gcVars, polecatObs, gcLog>>

----------------------------------------------------------------------------
\* cleanupStaleBranches (cleanup.go:291-318), called at cleanup.go:111-118

EnterGC ==
    /\ pc = "GCPass"
    /\ RunGC
    /\ gi' = 1
    /\ totalDeleted' = 0
    /\ pc' = "G_rig"
    /\ call' = NoCall
    /\ UNCHANGED <<flagVars, envVars, runVars, polecatVars, convoyVars, obsVars>>

SkipGC ==
    /\ pc = "GCPass"
    /\ ~RunGC
    /\ pc' = "Summary"
    /\ call' = NoCall
    /\ UNCHANGED <<flagVars, envVars, runVars, polecatVars, convoyVars, gcVars, obsVars>>

\* cleanup.go:298-303
G_WouldGC ==
    /\ pc = "G_rig"
    /\ gi <= Len(rigs)
    /\ cleanupDryRun
    /\ gcLog' = [gcLog EXCEPT !.status[gi] = "would"]
    /\ gi' = gi + 1
    /\ call' = NoCall
    /\ UNCHANGED <<flagVars, envVars, pc, runVars, polecatVars, convoyVars, totalDeleted,
                   polecatObs, convLog>>

\* The error of one rig ends the loop over the rigs.
G_CollectFail_Return ==
    /\ pc = "G_rig"
    /\ gi <= Len(rigs)
    /\ ~cleanupDryRun
    /\ gcLog' = [gcLog EXCEPT !.status[gi] = "fail"]
    /\ gi' = Len(rigs) + 1
    /\ call' = Call("CleanupStaleBranches", gi, 0, "fail")
    /\ UNCHANGED <<flagVars, envVars, pc, runVars, polecatVars, convoyVars, totalDeleted,
                   polecatObs, convLog>>

\* cleanup.go:305-309
G_CollectFail ==
    /\ pc = "G_rig"
    /\ gi <= Len(rigs)
    /\ ~cleanupDryRun
    /\ gcLog' = [gcLog EXCEPT !.status[gi] = "fail"]
    /\ gi' = gi + 1
    /\ call' = Call("CleanupStaleBranches", gi, 0, "fail")
    /\ UNCHANGED <<flagVars, envVars, pc, runVars, polecatVars, convoyVars, totalDeleted,
                   polecatObs, convLog>>

\* cleanup.go:305-314
G_CollectOK ==
    /\ pc = "G_rig"
    /\ gi <= Len(rigs)
    /\ ~cleanupDryRun
    /\ \E deleted \in 0..MaxDeleted :
          /\ totalDeleted' = IF deleted > 0 THEN totalDeleted + deleted
                             ELSE totalDeleted
          /\ gcLog' = [gcLog EXCEPT !.status[gi] = "ok", !.deleted = @ + deleted]
    /\ gi' = gi + 1
    /\ call' = Call("CleanupStaleBranches", gi, 0, "ok")
    /\ UNCHANGED <<flagVars, envVars, pc, runVars, polecatVars, convoyVars, polecatObs,
                   convLog>>

\* cleanup.go:317, 113-117
G_Return ==
    /\ pc = "G_rig"
    /\ gi > Len(rigs)
    /\ totalBranchesGCed' = totalDeleted
    /\ gcErr' = "nil"
    /\ gi' = 0
    /\ totalDeleted' = 0
    /\ pc' = "Summary"
    /\ call' = NoCall
    /\ UNCHANGED <<flagVars, envVars, rigsConfig, rigs, retErr, totalPolecatsNuked,
                   totalConvoysClosed, polecatsErr, convoysErr, summary,
                   polecatVars, convoyVars, obsVars>>

----------------------------------------------------------------------------
\* The summary and the return (cleanup.go:120-152)

Line(printed, n) ==
    IF ~printed THEN "omitted" ELSE IF n > 0 THEN "count" ELSE "nothing found"

Summary ==
    /\ pc = "Summary"
    /\ summary' = [polecats |-> Line(cleanBoth \/ cleanupOnlyPolecats,
                                     totalPolecatsNuked),
                   convoys |-> Line(cleanBoth \/ cleanupOnlyConvoys,
                                    totalConvoysClosed),
                   branches |-> Line(cleanupGC, totalBranchesGCed)]
    /\ retErr' = "nil"
    /\ pc' = "returned"
    /\ call' = NoCall
    /\ UNCHANGED <<flagVars, envVars, rigsConfig, rigs, totalPolecatsNuked,
                   totalConvoysClosed, totalBranchesGCed, polecatsErr,
                   convoysErr, gcErr, polecatVars, convoyVars, gcVars, obsVars>>

----------------------------------------------------------------------------

Next ==
    \/ FindWorkspaceOK \/ FindWorkspaceFail \/ LoadRigsConfig
    \/ DiscoverRigsOK \/ DiscoverRigsFail
    \/ EnterPolecats \/ SkipPolecats
    \/ P_ListFail \/ P_ListOK \/ P_NextRig \/ P_WouldNuke \/ P_IsRunning
    \/ P_Stop \/ P_RemoveOK \/ P_RemoveFail \/ P_CloseBead \/ P_Return
    \/ EnterConvoys \/ SkipConvoys
    \/ V_ListFail \/ V_ListOK \/ V_Convoy \/ V_Check \/ V_Return
    \/ K_ListFail \/ K_ListOK \/ K_Convoy \/ K_Check \/ K_CloseOK \/ K_CloseFail \/ K_Return
    \/ EnterGC \/ SkipGC
    \/ G_WouldGC \/ G_CollectFail \/ G_CollectOK \/ G_Return
    \/ Summary

Spec == Init /\ [][Next]_vars

----------------------------------------------------------------------------
\* Two dry-runs in a row: `gt cleanup --dry-run` is run, and once it has
\* returned it is run again with the same flags.  The world is kept: a question
\* asked again gets the answer it got.

\* What a run leaves on the terminal and as its exit status.
Outcome ==
    [polecats |-> totalPolecatsNuked, convoys |-> totalConvoysClosed,
     branches |-> totalBranchesGCed, summary |-> summary, err |-> retErr]

InitRerun ==
    /\ cleanupDryRun = TRUE
    /\ cleanupGC \in BOOLEAN
    /\ cleanupOnlyPolecats \in BOOLEAN
    /\ cleanupOnlyConvoys \in BOOLEAN
    /\ world = [NoWorld EXCEPT !.on = TRUE]
    /\ history = <<>>
    /\ Fresh

\* The command is run again: a new process, the same flags, the same world.
Rerun ==
    /\ pc = "returned"
    /\ history = <<>>
    /\ history' = <<Outcome>>
    /\ pc' = "FindFromCwdOrError"
    /\ rigsConfig' = "unset"
    /\ rigs' = <<>>
    /\ retErr' = "none"
    /\ totalPolecatsNuked' = 0
    /\ totalConvoysClosed' = 0
    /\ totalBranchesGCed' = 0
    /\ polecatsErr' = "none"
    /\ convoysErr' = "none"
    /\ gcErr' = "none"
    /\ summary' = NoSummary
    /\ ri' = 0
    /\ polecats' = <<>>
    /\ donePolecats' = <<>>
    /\ pi' = 0
    /\ running' = FALSE
    /\ totalNuked' = 0
    /\ convoys' = 0
    /\ ci' = 0
    /\ tracked' = <<>>
    /\ completed' = <<>>
    /\ closed' = <<>>
    /\ gi' = 0
    /\ totalDeleted' = 0
    /\ call' = NoCall
    /\ stopRes' = "none"
    /\ rigLog' = <<>>
    /\ doneSeen' = 0
    /\ removeCalls' = 0
    /\ removeFailures' = 0
    /\ convLog' = NewConvLog
    /\ gcLog' = [status |-> <<>>, deleted |-> 0]
    /\ UNCHANGED <<flagVars, world>>

NextRerun ==
    \/ FindWorkspaceOK \/ FindWorkspaceFail \/ LoadRigsConfig
    \/ DiscoverRigsOK \/ DiscoverRigsFail
    \/ EnterPolecats \/ SkipPolecats
    \/ P_ListFail \/ P_ListOK \/ P_NextRig \/ P_WouldNuke \/ P_Return
    \/ EnterConvoys \/ SkipConvoys
    \/ V_ListFail \/ V_ListOK \/ V_Convoy \/ V_Check \/ V_Return
    \/ EnterGC \/ SkipGC \/ G_WouldGC \/ G_Return
    \/ Summary
    \/ Rerun

SpecRerun == InitRerun /\ [][NextRerun]_vars

----------------------------------------------------------------------------
\* Properties

UnitCalls == {"IsRunning", "Stop", "Remove", "bd close agent"}
MutatingCalls == {"Stop", "Remove", "bd close agent", "bd close convoy",
                  "CleanupStaleBranches"}

\* The loop over the done polecats of rig ri has ended.
RigEnded == pc = "P_unit" /\ pi > Len(donePolecats)
\* The loop over the rigs has ended, cleanupDonePolecats is about to return.
PassEnded == pc = "P_rig" /\ ri > Len(rigs)

Resolved(tr) == Len(tr) > 0 /\ \A i \in 1..Len(tr) : tr[i] \in {"closed", "tombstone"}

RECURSIVE SumCounted(_, _)
SumCounted(log, n) == IF n = 0 THEN 0 ELSE log[n].counted + SumCounted(log, n - 1)

\* C1: a polecat whose listed state is not done is never the subject of an
\* IsRunning, Stop, Remove or bead-close call, in dry-run or apply mode: every
\* such call names a done polecat of the rig being processed, and no polecat in
\* another state carries a removal attempt.
C1_NonDoneUntouched ==
    /\ call.op \in UnitCalls =>
          /\ call.rig = ri
          /\ call.unit \in 1..Len(polecats)
          /\ polecats[call.unit].state = StateDone
    /\ \A i \in 1..Len(polecats) :
          polecats[i].state # StateDone =>
              polecats[i].removes = 0 /\ polecats[i].removed = "none"

C1_Witness ==
    /\ RigEnded
    /\ ~cleanupDryRun
    /\ \E i, j \in 1..Len(polecats) :
          /\ polecats[i].state = StateWorking
          /\ polecats[j].state = StateDone
          /\ polecats[j].removes = 1

\* C2: in apply mode every done polecat of a listed rig gets exactly one Remove
\* attempt: never more than one, one by the time its rig's loop ends, whatever
\* IsRunning and Stop answered; after a Stop (failed or not) the next step is
\* the Remove of the same polecat.
C2_ExactlyOneRemove ==
    /\ \A i \in 1..Len(polecats) : polecats[i].removes <= 1
    /\ call.op = "Stop" =>
          pc = "P_remove" /\ donePolecats[pi] = call.unit
                          /\ polecats[call.unit].removes = 0
    /\ (RigEnded /\ ~cleanupDryRun) =>
          \A i \in 1..Len(polecats) :
              polecats[i].state = StateDone => polecats[i].removes = 1
    /\ (PassEnded /\ ~cleanupDryRun) =>
          /\ removeCalls = doneSeen
          /\ \A r \in 1..Len(rigs) :
                rigLog[r].listed = "ok" => rigLog[r].removes = rigLog[r].done

C2_Witness ==
    /\ pc = "P_bead"
    /\ stopRes = "fail"
    /\ polecats[donePolecats[pi]].removes = 1

\* C3: in dry-run mode no step calls Stop, Remove, bd close (of an agent bead
\* or of a convoy) or CleanupStaleBranches, whatever passes are enabled: no
\* polecat is removed, no convoy closed, no branch collected.
C3_DryRunReadOnly ==
    cleanupDryRun =>
        /\ call.op \notin MutatingCalls
        /\ removeCalls = 0
        /\ \A i \in 1..Len(polecats) : polecats[i].removed = "none"
        /\ convLog.closeCalls = 0
        /\ gcLog.deleted = 0
        /\ \A r \in 1..Len(gcLog.status) : gcLog.status[r] \in {"pending", "would"}

C3_Witness ==
    /\ cleanupDryRun
    /\ pc = "returned"
    /\ totalPolecatsNuked > 0
    /\ totalConvoysClosed > 0
    /\ \E r \in 1..Len(gcLog.status) : gcLog.status[r] = "would"

\* C4: a run that reached its passes reports failure (returns an error) if and
\* only if at least one Remove of a done polecat failed.
C4_FailsIffRemoveFailed ==
    (pc = "returned" /\ summary # NoSummary) =>
        ((retErr # "nil") <=> (removeFailures > 0))

\* C5: in apply mode a failed Remove skips nothing and takes nothing back: the
\* done polecats after it in the rig and those of the later rigs each get their
\* Remove attempt, the polecats already counted stay counted, and the count
\* never decreases.
C5_FailureIsolated ==
    /\ [](/\ (RigEnded /\ ~cleanupDryRun) =>
                \A i \in 1..Len(polecats) :
                    polecats[i].state = StateDone => polecats[i].removed # "none"
          /\ (PassEnded /\ ~cleanupDryRun) =>
                /\ \A r \in 1..Len(rigs) :
                      rigLog[r].listed = "ok" =>
                          /\ rigLog[r].removes = rigLog[r].done
                          /\ rigLog[r].counted = rigLog[r].done - rigLog[r].failed
                /\ totalNuked = SumCounted(rigLog, Len(rigs)))
    /\ [][/\ (~PassEnded => totalNuked' >= totalNuked)
          /\ (PassEnded => totalPolecatsNuked' = totalNuked)
          /\ (call'.op = "Remove" /\ call'.res = "fail" =>
                 /\ totalNuked' = totalNuked
                 /\ pc' = "P_unit" /\ pi' = pi + 1 /\ ri' = ri)]_vars

C5_Witness ==
    /\ RigEnded
    /\ ~cleanupDryRun
    /\ ri = 2
    /\ rigLog[1].failed >= 1
    /\ Len(polecats) = 2
    /\ polecats[1].removed = "fail"
    /\ polecats[2].removed = "ok"
    /\ totalNuked >= 1

\* C6: the result of an apply-mode polecat pass carries a failed count equal to
\* the number of failed Removes.  The result is the pair (totalNuked, nil): the
\* only word it has on failures is its error, and a nil error reports none.
C6_ResultCarriesFailedCount ==
    (~cleanupDryRun /\ polecatsErr = "nil") => removeFailures = 0

\* C7: an open convoy is classified complete (appended to the completed list
\* by the preview, handed to close otherwise) if and only if it tracks at least
\* one issue and every tracked issue is closed or tombstone; any other status
\* among the tracked issues keeps it out.
C7_CompleteIffAllResolved ==
    /\ [](/\ pc = "K_close" => Resolved(tracked)
          /\ pc = "V_convoy" => Len(completed) = convLog.resolved
          /\ pc = "K_convoy" => convLog.closeCalls = convLog.resolved)
    /\ [][/\ pc = "V_check" =>
                IF Resolved(tracked) THEN completed' = Append(completed, ci)
                                     ELSE completed' = completed
          /\ pc = "K_check" => ((pc' = "K_close" /\ ci' = ci) <=> Resolved(tracked))
          /\ call'.op = "bd close convoy" => pc = "K_close" /\ call'.unit = ci]_vars

C7_Witness ==
    /\ pc = "V_convoy"
    /\ ci = 3
    /\ completed = <<1>>
    /\ convLog.evaluated = 2
    /\ convLog.resolved = 1
    /\ convLog.empty = 0

\* C8: a convoy for which no tracked issue comes back is never listed as
\* completed, never closed and never counted in the closed total, in dry-run or
\* apply mode.
C8_EmptyNeverClosed ==
    /\ [](/\ pc = "K_close" => Len(tracked) > 0
          /\ Len(completed) <= convLog.evaluated - convLog.empty
          /\ convLog.closeCalls <= convLog.evaluated - convLog.empty
          /\ Len(closed) <= convLog.evaluated - convLog.empty)
    /\ [][/\ (pc \in {"V_check", "K_check"} /\ Len(tracked) = 0) =>
                /\ completed' = completed
                /\ closed' = closed
                /\ pc' # "K_close"
                /\ ci' = ci + 1
          /\ totalConvoysClosed' # totalConvoysClosed =>
                totalConvoysClosed' <= convLog.evaluated - convLog.empty]_vars

C8_Witness ==
    /\ pc = "V_convoy"
    /\ ci = 3
    /\ convLog.evaluated = 2
    /\ convLog.empty = 1
    /\ completed = <<1>>

\* C9: a rig whose listing fails gets no IsRunning, Stop or Remove and adds
\* nothing to the count, and the pass goes on with the next rig: at the end
\* every rig has been listed, and every rig listed successfully has had its
\* done polecats processed and counted.
C9_ListFailureSkipsOnlyThatRig ==
    /\ call.op \in UnitCalls => rigLog[call.rig].listed = "ok"
    /\ (call.op = "List" /\ call.res = "fail") =>
          pc = "P_rig" /\ ri = call.rig + 1
    /\ \A r \in 1..Len(rigLog) :
          rigLog[r].listed = "error" =>
              /\ rigLog[r].done = 0
              /\ rigLog[r].removes = 0
              /\ rigLog[r].failed = 0
              /\ rigLog[r].counted = 0
    /\ PassEnded =>
          /\ \A r \in 1..Len(rigs) :
                /\ rigLog[r].listed # "pending"
                /\ rigLog[r].listed = "ok" =>
                      /\ ~cleanupDryRun => rigLog[r].removes = rigLog[r].done
                      /\ rigLog[r].counted = rigLog[r].done - rigLog[r].failed
          /\ totalNuked = SumCounted(rigLog, Len(rigs))

C9_Witness ==
    /\ PassEnded
    /\ ~cleanupDryRun
    /\ Len(rigs) = 2
    /\ rigLog[1].listed = "error"
    /\ rigLog[2].listed = "ok"
    /\ rigLog[2].removes >= 1
    /\ rigLog[2].counted >= 1

\* C10: when listing the open convoys fails no convoy is evaluated or closed,
\* the closed total is 0 and the run goes on: the count of the polecat pass is
\* kept, the branch pass runs over every rig when cleanup.go:112 enables it, and
\* the run ends with its summary and a nil error.
C10_ConvoyListFailureNotFatal ==
    convLog.listed = "error" =>
        /\ convLog.evaluated = 0
        /\ convLog.closeCalls = 0
        /\ totalConvoysClosed = 0
        /\ retErr \in {"none", "nil"}
        /\ pc \in {"GCPass", "G_rig", "Summary", "returned"}
        /\ totalPolecatsNuked =
              (IF cleanupDryRun THEN doneSeen ELSE removeCalls - removeFailures)
        /\ pc = "returned" =>
              /\ retErr = "nil"
              /\ summary.convoys = "nothing found"
              /\ RunGC => \A r \in 1..Len(rigs) : gcLog.status[r] # "pending"

C10_Witness ==
    /\ pc = "returned"
    /\ convLog.listed = "error"
    /\ cleanupDryRun
    /\ totalPolecatsNuked > 0
    /\ \E r \in 1..Len(rigs) : gcLog.status[r] = "would"

\* No pass has started: nothing was listed, removed, closed or collected, and
\* no pass has returned.
NoPassStarted ==
    /\ polecatsErr = "none" /\ convoysErr = "none" /\ gcErr = "none"
    /\ summary = NoSummary
    /\ totalPolecatsNuked = 0 /\ totalConvoysClosed = 0 /\ totalBranchesGCed = 0
    /\ doneSeen = 0 /\ removeCalls = 0 /\ removeFailures = 0
    /\ \A r \in 1..Len(rigLog) : rigLog[r] = NewRigLog
    /\ convLog = NewConvLog
    /\ gcLog.deleted = 0
    /\ \A r \in 1..Len(gcLog.status) : gcLog.status[r] = "pending"

\* C11 as stated: when FindFromCwdOrError or LoadRigsConfig fails, the run has
\* failed: it has returned an error and no pass has started.
C11_ConfigFailureFatal ==
    (call.op \in {"FindFromCwdOrError", "LoadRigsConfig"} /\ call.res = "fail") =>
        /\ pc = "returned"
        /\ retErr \notin {"none", "nil"}
        /\ NoPassStarted

\* C11 as amended: when the workspace cannot be found or the rigs cannot be
\* discovered the run returns an error before any pass starts, and a run that
\* returns an error is one of these two; a rigs config that cannot be loaded
\* does not end the run, which goes on to discover the rigs.
C11_FatalBeforeAnyPass ==
    /\ (call.op \in {"FindFromCwdOrError", "DiscoverRigs"} /\ call.res = "fail") =>
          /\ pc = "returned"
          /\ retErr \in {"not in a Gas Town workspace", "discovering rigs"}
    /\ retErr \notin {"none", "nil"} =>
          /\ pc = "returned"
          /\ call.op \in {"FindFromCwdOrError", "DiscoverRigs"}
          /\ call.res = "fail"
          /\ NoPassStarted
    /\ call.op = "LoadRigsConfig" =>
          /\ pc = "DiscoverRigs"
          /\ retErr = "none"
          /\ rigsConfig = (IF call.res = "ok" THEN "loaded" ELSE "empty")

C11_Witness ==
    /\ pc = "returned"
    /\ call = Call("DiscoverRigs", 0, 0, "fail")
    /\ retErr = "discovering rigs"

\* C12: the branch pass is enabled by the branch flag alone: in apply mode a
\* run that ends with its summary and had --gc set has called
\* CleanupStaleBranches on every rig, whatever --polecats and --convoys were,
\* and a branch line in the summary reports a branch pass that ran.
C12_BranchPassIndependent ==
    /\ (pc = "returned" /\ retErr = "nil" /\ cleanupGC /\ ~cleanupDryRun) =>
          \A r \in 1..Len(rigs) : gcLog.status[r] \in {"ok", "fail"}
    /\ (pc = "returned" /\ summary.branches \in {"count", "nothing found"}) =>
          gcErr = "nil"

\* The loop over the open convoys has ended in apply mode.
ClosePassEnded == pc = "K_convoy" /\ ci > convoys

\* C14: in apply mode a failed close of a complete convoy changes nothing but
\* the log: the loop goes on with the next open convoy, so that at the end of
\* the loop every open convoy has been evaluated and every complete one has had
\* its close call; the closed list holds the convoys whose close succeeded and
\* the closed total returned is its length.
C14_CloseFailureIsolated ==
    /\ [](/\ ~cleanupDryRun => Len(closed) = convLog.closeOK
          /\ ClosePassEnded =>
                /\ convLog.evaluated = convoys
                /\ convLog.closeCalls = convLog.resolved
                /\ convLog.closeOK <= convLog.closeCalls)
    /\ [][/\ (call'.op = "bd close convoy" /\ call'.res = "fail") =>
                /\ closed' = closed
                /\ pc' = "K_convoy"
                /\ ci' = ci + 1
                /\ convoys' = convoys
          /\ (call'.op = "bd close convoy" /\ call'.res = "ok") =>
                closed' = Append(closed, ci)
          /\ ClosePassEnded =>
                /\ totalConvoysClosed' = convLog.closeOK
                /\ convoysErr' = "nil"]_vars

C14_Witness ==
    /\ ClosePassEnded
    /\ convoys = 2
    /\ convLog.closeCalls = 2
    /\ convLog.closeOK = 1
    /\ closed = <<2>>

\* The loop over the rigs of cleanupStaleBranches has ended.
GCEnded == pc = "G_rig" /\ gi > Len(rigs)

\* C15: in apply mode CleanupStaleBranches is called on the rigs in order, once
\* each, whether or not an earlier rig failed: a call is always on a rig not
\* called before, a failure adds nothing and moves to the next rig, and at the
\* end of the loop every rig has been called.  The total is the sum of the
\* deleted counts of the rigs that succeeded, and this is the count the pass
\* returns; in dry-run no rig is called and the count is 0.
C15_CollectFailureIsolated ==
    /\ [](/\ pc = "G_rig" =>
                /\ totalDeleted = gcLog.deleted
                /\ \A r \in 1..Len(rigs) :
                      (r < gi) <=> (gcLog.status[r] # "pending")
          /\ (GCEnded /\ ~cleanupDryRun) =>
                \A r \in 1..Len(rigs) : gcLog.status[r] \in {"ok", "fail"}
          /\ gcErr = "nil" => totalBranchesGCed = gcLog.deleted
          /\ cleanupDryRun => totalBranchesGCed = 0 /\ totalDeleted = 0)
    /\ [][/\ call'.op = "CleanupStaleBranches" =>
                /\ ~cleanupDryRun
                /\ call'.rig = gi
                /\ gcLog.status[gi] = "pending"
                /\ gcLog'.status[gi] = call'.res
                /\ gi' = gi + 1
                /\ pc' = "G_rig"
                /\ call'.res = "fail" => totalDeleted' = totalDeleted
                /\ call'.res = "ok" =>
                      totalDeleted' - totalDeleted = gcLog'.deleted - gcLog.deleted
          /\ GCEnded => totalBranchesGCed' = gcLog.deleted]_vars

C15_Witness ==
    /\ GCEnded
    /\ ~cleanupDryRun
    /\ Len(rigs) = 2
    /\ gcLog.status = <<"fail", "ok">>
    /\ totalDeleted = 1

\* Two calls on the same polecat of the same rig.
SameUnit(c, d) == c.rig = d.rig /\ c.unit = d.unit

\* C16: in apply mode the calls on one done polecat come in the order
\* IsRunning, Stop (only if IsRunning answered true), Remove: a Remove directly
\* follows the IsRunning that answered false or the Stop of the same polecat, a
\* Stop directly follows the IsRunning of the same polecat that answered true,
\* and neither IsRunning nor Stop is ever called on a polecat that has had its
\* Remove.
C16_StopBeforeRemove ==
    /\ [](call.op \in {"IsRunning", "Stop"} =>
             /\ polecats[call.unit].removes = 0
             /\ call.op = "Stop" => running)
    /\ [][/\ call'.op = "Remove" =>
                /\ SameUnit(call, call')
                /\ \/ call.op = "IsRunning" /\ call.res = "false"
                   \/ call.op = "Stop"
          /\ call'.op = "Stop" =>
                /\ SameUnit(call, call')
                /\ call.op = "IsRunning" /\ call.res = "true"
                /\ polecats[call'.unit].removes = 0
          /\ call.op = "IsRunning" =>
                call'.op = (IF call.res = "true" THEN "Stop" ELSE "Remove")
          /\ call.op = "Remove" =>
                ~(call'.op \in {"IsRunning", "Stop"} /\ SameUnit(call, call'))]_vars

C16_Witness ==
    /\ call.op = "Remove"
    /\ running
    /\ stopRes = "ok"
    /\ pi = 2
    /\ polecats[1].removes = 1

\* The loop over the done polecats of a rig is at the top of its body.
AtUnit == pc = "P_unit" /\ pi <= Len(donePolecats)

\* C17 as stated: in dry-run as in apply mode, the first thing done with every
\* selected done polecat is the IsRunning query for it.
C17_EveryDoneUnitQueried ==
    [][AtUnit => /\ call'.op = "IsRunning"
                 /\ call'.rig = ri
                 /\ call'.unit = donePolecats[pi]]_vars

\* C17 as amended: in apply mode the first thing done with every selected done
\* polecat is the IsRunning query for it; in dry-run the polecat is counted in
\* a step that calls nothing, and IsRunning is never called.
C17_QueriedInApplyOnly ==
    /\ [](cleanupDryRun => call.op # "IsRunning")
    /\ [][AtUnit =>
             IF cleanupDryRun
             THEN /\ call' = NoCall
                  /\ totalNuked' = totalNuked + 1
                  /\ pi' = pi + 1
                  /\ pc' = "P_unit"
             ELSE /\ call'.op = "IsRunning"
                  /\ call'.rig = ri
                  /\ call'.unit = donePolecats[pi]
                  /\ call'.res = (IF running' THEN "true" ELSE "false")]_vars

C17_Witness ==
    /\ cleanupDryRun
    /\ pc = "P_unit"
    /\ Len(donePolecats) = 2
    /\ pi = 3
    /\ totalNuked >= 2
    /\ call = NoCall

\* C18: the agent bead of a polecat is closed only in apply mode and only in
\* the step right after the Remove of that polecat succeeded; a failed Remove is
\* never followed by it.  Whether the close succeeds or fails, the step counts
\* the polecat, moves on to the next one and changes neither the number of
\* failed Removes nor any error of the run.
C18_BeadCloseAdvisory ==
    /\ [](call.op = "bd close agent" =>
             /\ ~cleanupDryRun
             /\ polecats[call.unit].removed = "ok"
             /\ polecats[call.unit].removes = 1)
    /\ [][/\ call'.op = "bd close agent" =>
                /\ call = Call("Remove", call'.rig, call'.unit, "ok")
                /\ totalNuked' = totalNuked + 1
                /\ removeFailures' = removeFailures
                /\ removeCalls' = removeCalls
                /\ retErr' = retErr /\ polecatsErr' = polecatsErr
                /\ pc' = "P_unit" /\ pi' = pi + 1
          /\ (call.op = "Remove" /\ call.res = "ok") =>
                call'.op = "bd close agent" /\ SameUnit(call, call')
          /\ (call.op = "Remove" /\ call.res = "fail") =>
                call'.op # "bd close agent"]_vars

C18_Witness ==
    /\ call.op = "bd close agent"
    /\ call.res = "fail"
    /\ polecats[call.unit].removed = "ok"
    /\ totalNuked = 1
    /\ removeFailures = 1

\* The pass a control point belongs to: 0 before the passes, 1 the polecat
\* pass, 2 the convoy pass, 3 the branch pass, 4 the summary and after.
PassOf(p) ==
    CASE p \in {"FindFromCwdOrError", "LoadRigsConfig", "DiscoverRigs"} -> 0
      [] p \in {"PolecatsPass", "P_rig", "P_unit", "P_stop", "P_remove",
                "P_bead"} -> 1
      [] p \in {"ConvoysPass", "V_list", "V_convoy", "V_check", "K_list",
                "K_convoy", "K_check", "K_close"} -> 2
      [] p \in {"GCPass", "G_rig"} -> 3
      [] p \in {"Summary", "returned"} -> 4

\* The pass a call belongs to.
PassOfCall(op) ==
    CASE op \in {"List", "IsRunning", "Stop", "Remove", "bd close agent"} -> 1
      [] op \in {"bd list convoys", "getTrackedIssues", "bd close convoy"} -> 2
      [] op = "CleanupStaleBranches" -> 3
      [] OTHER -> 0

\* C19: the passes run in the order polecats, convoys, branches and never go
\* back: every List, IsRunning, Stop, Remove and bead close is made from the
\* polecat pass, every convoy call from the convoy pass, every
\* CleanupStaleBranches from the branch pass.  While the polecat pass runs no
\* convoy has been listed and no rig collected; when the convoy pass is reached
\* an enabled polecat pass has returned and the removals never change again;
\* when the branch pass is reached an enabled convoy pass has returned and the
\* closed total never changes again.
C19_PassOrder ==
    /\ [](/\ PassOf(pc) <= 1 => convLog = NewConvLog /\ convoysErr = "none"
          /\ (PassOf(pc) <= 2 /\ retErr \in {"none", "nil"}) =>
                /\ gcErr = "none" /\ gcLog.deleted = 0
                /\ \A r \in 1..Len(gcLog.status) : gcLog.status[r] = "pending"
          /\ (PassOf(pc) >= 2 /\ RunPolecats /\ retErr \in {"none", "nil"}) =>
                polecatsErr = "nil"
          /\ (PassOf(pc) >= 3 /\ RunConvoys /\ retErr \in {"none", "nil"}) =>
                convoysErr # "none")
    /\ [][/\ PassOf(pc') >= PassOf(pc)
          /\ PassOfCall(call'.op) # 0 => PassOfCall(call'.op) = PassOf(pc)
          /\ PassOf(pc) >= 2 =>
                /\ removeCalls' = removeCalls
                /\ removeFailures' = removeFailures
                /\ doneSeen' = doneSeen
                /\ totalPolecatsNuked' = totalPolecatsNuked
          /\ PassOf(pc) >= 3 =>
                /\ totalConvoysClosed' = totalConvoysClosed
                /\ convLog' = convLog]_vars

C19_Witness ==
    /\ call.op = "CleanupStaleBranches"
    /\ totalPolecatsNuked > 0
    /\ removeFailures > 0
    /\ totalConvoysClosed > 0
    /\ convoysErr = "nil"

RECURSIVE SumDone(_, _)
SumDone(log, n) ==
    IF n = 0 THEN 0
    ELSE (IF log[n].listed = "ok" THEN log[n].done ELSE 0) + SumDone(log, n - 1)

\* C20: doneSeen is the number of done polecats over the rigs whose listing
\* succeeded.  The count the polecat pass returns is doneSeen in dry-run; in
\* apply mode each of these polecats has had one Remove and the count is the
\* number of Removes that succeeded, that is doneSeen less the failed Removes,
\* hence never more than the dry-run count of the same listings.
C20_CountAccounting ==
    /\ PassEnded =>
          /\ doneSeen = SumDone(rigLog, Len(rigs))
          /\ IF cleanupDryRun
             THEN totalNuked = doneSeen /\ removeCalls = 0 /\ removeFailures = 0
             ELSE /\ removeCalls = doneSeen
                  /\ totalNuked = removeCalls - removeFailures
                  /\ totalNuked <= doneSeen
                  /\ doneSeen - totalNuked = removeFailures
    /\ polecatsErr = "nil" =>
          totalPolecatsNuked =
              (IF cleanupDryRun THEN doneSeen ELSE doneSeen - removeFailures)

C20_Witness ==
    /\ PassEnded
    /\ ~cleanupDryRun
    /\ Len(rigs) = 2
    /\ rigLog[1].listed = "error"
    /\ doneSeen = 2
    /\ removeFailures = 1
    /\ totalNuked = 1

\* C13: dry-run is idempotent.  When `gt cleanup --dry-run` has returned and
\* is run again with the same flags in a world that answers as before, the
\* second run returns what the first did: the same count of polecats that would
\* be nuked, of convoys that would be closed and of branches, the same summary
\* and the same error.
C13_DryRunIdempotent ==
    (pc = "returned" /\ history # <<>>) => history[1] = Outcome

C13_Witness ==
    /\ pc = "returned"
    /\ history # <<>>
    /\ history[1].polecats = 1
    /\ history[1].convoys = 1
    /\ totalPolecatsNuked = 1
    /\ totalConvoysClosed = 1

====
